---- MODULE Spec2Model ----
(***************************************************************************)
(* The dashboard screen (HomeScreen) of the water-monitoring app: its MQTT *)
(* effect, the handlers it installs on each Paho client, and the Firebase  *)
(* save path, in both revisions kept in app/(tabs)/index.tsx:              *)
(*   revision 1  lines 1..445    fixed broker, rate-limited saveToFirebase *)
(*   revision 2  lines 447..949  loaded broker config, save per message    *)
(* The Paho client and Firestore are the environment: their callbacks and  *)
(* promise settlements are the actions' triggers.                          *)
(***************************************************************************)
EXTENDS Integers, Sequences, FiniteSets, TLC

VARIABLES
    revision,          \* which revision of HomeScreen runs (fixed by Init)
    mounted,           \* the component is mounted (state setters take effect)
    mqttConfig,        \* useState mqttConfig: identity of the config object
    configLoad,        \* the loadConfig effect's promise: "pending" | "done" | "none"
    clients,           \* every Paho.Client the MQTT effect created, in order
    timers,            \* pending setTimeout handles of the screen
    connectionStatus,  \* useState connectionStatus
    sensorData,        \* useState sensorData (the displayed reading)
    previousData,      \* useState previousData
    sensorDataRef,     \* sensorDataRef.current
    displayed,         \* the sensorData of the last committed render
    parseErrors,       \* 'Error parsing JSON' lines logged so far
    firebaseStatus,    \* useState firebaseStatus
    readingCount,      \* useState readingCount
    writes,            \* every saveSensorReading call, in call order
    now,               \* Date.now()
    lastSaveTime,      \* lastSaveTime.current (revision 1)
    storage,           \* AsyncStorage: the item under '@mqtt_config'
    storeCall,         \* the last call of a config/mqtt function, its result
    config,            \* SettingsScreen useState config
    loading,           \* SettingsScreen useState loading
    saving,            \* SettingsScreen useState saving
    hasChanges,        \* SettingsScreen useState hasChanges
    alert,             \* the last Alert.alert the settings screen showed
    pending,           \* storage calls the settings screen is awaiting
    collection,        \* Firestore: the documents of 'sensor_readings'
    cloudCall,         \* the last query of services/firestore, its result
    countLoad,         \* HomeScreen's loadReadingCount effect
    phCard,            \* the pH SensorCard as rendered
    filteredReadings,  \* AnalyticsScreen filteredReadings, newest first
    chartData          \* AnalyticsScreen chartData.datasets[0].data

homeVars == <<revision, mounted, mqttConfig, configLoad, clients, timers,
              connectionStatus, sensorData, previousData, sensorDataRef,
              displayed, parseErrors,
              firebaseStatus, readingCount, writes, now, lastSaveTime>>

storeVars == <<storage, storeCall>>

settingsVars == <<config, loading, saving, hasChanges, alert, pending>>

cloudVars == <<collection, cloudCall, countLoad>>

viewVars == <<phCard, filteredReadings, chartData>>

vars == <<homeVars, storeVars, settingsVars, cloudVars, viewVars>>

(***************************************************************************)
(* Bounds of the model.                                                    *)
(***************************************************************************)
\* saveSensorReading calls explored per run
MaxWrites == 2
\* milliseconds of clock explored after the mount (revision 1)
MaxElapsed == 41000
\* malformed payloads explored per run
MaxParseErrors == 1
\* Date.now() when the screen mounts; any value >= FIREBASE_SAVE_INTERVAL
\* behaves like a real epoch time against the initial lastSaveTime of 0
StartTime == 100000

(***************************************************************************)
(* Program constants.                                                      *)
(***************************************************************************)
FIREBASE_SAVE_INTERVAL == 30000

\* documented retry policy (MQTT_FIX_SUMMARY.md)
MAX_RECONNECT_ATTEMPTS == 10
BASE_RECONNECT_DELAY == 2000
MAX_RECONNECT_DELAY == 60000

\* decodable payloads, and the one payload JSON.parse rejects
Readings == {"r1", "r2"}
Malformed == "malformed"
Payloads == Readings \cup {Malformed}

\* the placeholder reading of useState(sensorData), and previousData's null
InitialReading == "waiting"
NoReading == "null"

\* loadMQTTConfig returns the DEFAULT_MQTT_CONFIG object itself, or a fresh
\* object parsed from storage
DefaultConfig == "DEFAULT_MQTT_CONFIG"
StoredConfig == "stored"

\* errorCode of onConnectionLost: 0 after client.disconnect(), else a fault
ErrorCodes == {0, 7, 8}

\* the clock advances the model explores between two events
TickSteps == {10000, 21000}

Current == Len(clients)

\* the module-level client identifier, drawn once when the module loads
CLIENT_ID == "ReactNative_App_xxxxxxxx"

NewClient(cfg) ==
    [phase |-> "connecting", config |-> cfg, clientId |-> CLIENT_ID,
     stopped |-> FALSE, attempts |-> 1, failures |-> 0]

\* a state setter of an unmounted component is a no-op
SetState(old, new) == IF mounted THEN new ELSE old

(***************************************************************************)
(* The MQTT effect and its cleanup.                                        *)
(***************************************************************************)
\* the effect's cleanup for client i: disconnect it only if isConnected()
MqttCleanup(i) ==
    [clients EXCEPT ![i].stopped = TRUE,
                    ![i].phase = IF @ = "connected" THEN "disconnecting" ELSE @]

\* React re-runs the effect when mqttConfig is a new object: the previous
\* run's cleanup, then a new client that starts connecting
MqttEffect ==
    /\ mounted
    /\ clients[Current].config # mqttConfig
    /\ clients' = Append(MqttCleanup(Current), NewClient(mqttConfig))
    /\ UNCHANGED <<revision, mounted, mqttConfig, configLoad, timers,
                   connectionStatus, sensorData, previousData, sensorDataRef,
                   firebaseStatus, readingCount, writes, now, lastSaveTime,
                   displayed, parseErrors,
                   storeVars, settingsVars, cloudVars, viewVars>>

\* the screen unmounts: the cleanup of the last effect run
Unmount ==
    /\ mounted
    /\ mounted' = FALSE
    /\ clients' = MqttCleanup(Current)
    /\ UNCHANGED <<revision, mqttConfig, configLoad, timers,
                   connectionStatus, sensorData, previousData, sensorDataRef,
                   firebaseStatus, readingCount, writes, now, lastSaveTime,
                   displayed, parseErrors,
                   storeVars, settingsVars, cloudVars, viewVars>>

\* loadConfig: loadMQTTConfig settles with cfg, then setMqttConfig(cfg)
loadConfig(cfg) ==
    /\ configLoad = "pending"
    /\ configLoad' = "done"
    /\ mqttConfig' = SetState(mqttConfig, cfg)
    /\ UNCHANGED <<revision, mounted, clients, timers,
                   connectionStatus, sensorData, previousData, sensorDataRef,
                   firebaseStatus, readingCount, writes, now, lastSaveTime,
                   displayed, parseErrors,
                   storeVars, settingsVars, cloudVars, viewVars>>

(***************************************************************************)
(* The handlers installed on client i.                                     *)
(***************************************************************************)
onConnect(i) ==
    /\ clients[i].phase = "connecting"
    /\ clients' = [clients EXCEPT ![i].phase = "connected"]
    /\ connectionStatus' = SetState(connectionStatus, "Connected")
    /\ UNCHANGED <<revision, mounted, mqttConfig, configLoad, timers,
                   sensorData, previousData, sensorDataRef,
                   firebaseStatus, readingCount, writes, now, lastSaveTime,
                   displayed, parseErrors,
                   storeVars, settingsVars, cloudVars, viewVars>>

onFailure(i) ==
    /\ clients[i].phase = "connecting"
    /\ clients' = [clients EXCEPT ![i].phase = "failed",
                                  ![i].failures = @ + 1]
    /\ connectionStatus' = SetState(connectionStatus, "Failed to Connect")
    /\ UNCHANGED <<revision, mounted, mqttConfig, configLoad, timers,
                   sensorData, previousData, sensorDataRef,
                   firebaseStatus, readingCount, writes, now, lastSaveTime,
                   displayed, parseErrors,
                   storeVars, settingsVars, cloudVars, viewVars>>

\* onConnectionLost without its errorCode test
onConnectionLostAnyCode(i, errorCode) ==
    /\ \/ clients[i].phase = "connected" /\ errorCode # 0
       \/ clients[i].phase = "disconnecting" /\ errorCode = 0
    /\ clients' = [clients EXCEPT
                     ![i].phase = IF errorCode # 0 THEN "lost" ELSE "closed"]
    /\ connectionStatus' = SetState(connectionStatus, "Lost Connection")
    /\ UNCHANGED <<revision, mounted, mqttConfig, configLoad, timers,
                   sensorData, previousData, sensorDataRef,
                   firebaseStatus, readingCount, writes, now, lastSaveTime,
                   displayed, parseErrors,
                   storeVars, settingsVars, cloudVars, viewVars>>

\* Paho reports errorCode 0 once a disconnect() has completed and a non-zero
\* code when an established connection breaks
onConnectionLost(i, errorCode) ==
    /\ \/ clients[i].phase = "connected" /\ errorCode # 0
       \/ clients[i].phase = "disconnecting" /\ errorCode = 0
    /\ clients' = [clients EXCEPT
                     ![i].phase = IF errorCode # 0 THEN "lost" ELSE "closed"]
    /\ connectionStatus' = IF errorCode # 0
                             THEN SetState(connectionStatus, "Lost Connection")
                             ELSE connectionStatus
    /\ UNCHANGED <<revision, mounted, mqttConfig, configLoad, timers,
                   sensorData, previousData, sensorDataRef,
                   firebaseStatus, readingCount, writes, now, lastSaveTime,
                   displayed, parseErrors,
                   storeVars, settingsVars, cloudVars, viewVars>>

\* revision 1: "Skip if too soon"; revision 2 saves on every message
TooSoon(t) ==
    revision = 1 /\ t - lastSaveTime < FIREBASE_SAVE_INTERVAL

\* saveToFirebase returning early while an earlier save is still syncing
saveToFirebaseUnlessSyncing(data) ==
    IF TooSoon(now) \/ \E w \in DOMAIN writes : writes[w].state = "pending"
      THEN UNCHANGED <<firebaseStatus, writes>>
      ELSE /\ firebaseStatus' = SetState(firebaseStatus, "Syncing...")
           /\ writes' = Append(writes, [data |-> data, startedAt |-> now,
                                        state |-> "pending"])

\* saveToFirebase giving up once a save has failed
saveToFirebaseUnlessFailed(data) ==
    IF TooSoon(now) \/ firebaseStatus = "Sync failed"
      THEN UNCHANGED <<firebaseStatus, writes>>
      ELSE /\ firebaseStatus' = SetState(firebaseStatus, "Syncing...")
           /\ writes' = Append(writes, [data |-> data, startedAt |-> now,
                                        state |-> "pending"])

\* saveToFirebase up to its await: the throttle test, 'Syncing...', and the
\* saveSensorReading call
saveToFirebase(data) ==
    IF TooSoon(now)
      THEN UNCHANGED <<firebaseStatus, writes>>
      ELSE /\ firebaseStatus' = SetState(firebaseStatus, "Syncing...")
           /\ writes' = Append(writes, [data |-> data, startedAt |-> now,
                                        state |-> "pending"])

\* onMessageArrived using the payload without the JSON.parse that rejects it
onMessageArrivedUnparsed(i, payload) ==
    /\ clients[i].phase = "connected"
    /\ TooSoon(now) \/ Len(writes) < MaxWrites
    /\ previousData' = SetState(previousData, sensorDataRef)
    /\ sensorData' = SetState(sensorData, payload)
    /\ saveToFirebase(payload)
    /\ UNCHANGED <<revision, mounted, mqttConfig, configLoad, clients, timers,
                   connectionStatus, sensorDataRef, readingCount, now,
                   lastSaveTime, displayed, parseErrors,
                   storeVars, settingsVars, cloudVars, viewVars>>

onMessageArrived(i, payload) ==
    /\ clients[i].phase = "connected"
    /\ IF payload = Malformed
         THEN /\ parseErrors < MaxParseErrors
              /\ parseErrors' = parseErrors + 1
              /\ UNCHANGED <<sensorData, previousData, firebaseStatus, writes>>
         ELSE /\ TooSoon(now) \/ Len(writes) < MaxWrites
              /\ previousData' = SetState(previousData, sensorDataRef)
              /\ sensorData' = SetState(sensorData, payload)
              /\ saveToFirebase(payload)
              /\ UNCHANGED parseErrors
    /\ UNCHANGED <<revision, mounted, mqttConfig, configLoad, clients, timers,
                   connectionStatus, sensorDataRef, readingCount, now,
                   lastSaveTime, displayed,
                   storeVars, settingsVars, cloudVars, viewVars>>

\* React commits a render of the current state
Render ==
    /\ mounted
    /\ displayed # sensorData
    /\ displayed' = sensorData
    /\ UNCHANGED <<revision, mounted, mqttConfig, configLoad, clients, timers,
                   connectionStatus, sensorData, previousData, sensorDataRef,
                   parseErrors,
                   firebaseStatus, readingCount, writes, now, lastSaveTime,
                   storeVars, settingsVars, cloudVars, viewVars>>

\* the effect of a committed render that copies its sensorData into
\* sensorDataRef
SyncSensorDataRef ==
    /\ mounted
    /\ sensorDataRef # displayed
    /\ sensorDataRef' = displayed
    /\ UNCHANGED <<revision, mounted, mqttConfig, configLoad, clients, timers,
                   connectionStatus, sensorData, previousData,
                   displayed, parseErrors,
                   firebaseStatus, readingCount, writes, now, lastSaveTime,
                   storeVars, settingsVars, cloudVars, viewVars>>

(***************************************************************************)
(* services/firestore.ts over the 'sensor_readings' collection.  A         *)
(* document is [id, data, timestamp]; Firestore gives each added document  *)
(* a fresh id (here the next number, as nothing is ever deleted).          *)
(***************************************************************************)
HOUR == 3600000

MaxDocs == 3
MaxTicks == 4

\* a save that writes the document with a fixed id
saveSensorReadingFixedId(coll, data, t, ok) ==
    [collection |-> IF ok THEN {d \in coll : d.id # 1}
                                 \cup {[id |-> 1, data |-> data, timestamp |-> t]}
                          ELSE coll,
     status |-> IF ok THEN "resolved" ELSE "rejected"]

\* saveSensorReading(data) called at time t; ok: addDoc resolves
saveSensorReading(coll, data, t, ok) ==
    [collection |-> IF ok THEN coll \cup {[id |-> Cardinality(coll) + 1,
                                          data |-> data, timestamp |-> t]}
                          ELSE coll,
     status |-> IF ok THEN "resolved" ELSE "rejected"]

\* the documents of a query snapshot, before ordering (here by id)
Docs(S) ==
    IF S = {} THEN <<>>
    ELSE LET last == CHOOSE d \in S : \A e \in S : e.id <= d.id
             ids == SelectSeq([k \in 1..last.id |-> k],
                              LAMBDA k : \E d \in S : d.id = k)
         IN  [j \in 1..Len(ids) |-> CHOOSE d \in S : d.id = ids[j]]

Newer(d, e) ==
    \/ d.timestamp > e.timestamp
    \/ d.timestamp = e.timestamp /\ d.id > e.id

\* orderBy('timestamp', 'desc')
OrderByTimestampDesc(S) == SortSeq(Docs(S), Newer)

\* limit(count)
Limit(seq, count) ==
    SubSeq(seq, 1, IF Len(seq) < count THEN Len(seq) ELSE count)

getLatestReadings(coll, count) == Limit(OrderByTimestampDesc(coll), count)

getTotalReadingsCountDistinct(coll) == Cardinality({d.data : d \in coll})

\* getCountFromServer(coll).data().count
getTotalReadingsCount(coll) == Cardinality(coll)

\* the device's time zone: without daylight saving time, or with the clocks
\* put forward one hour at DstTransition
TimeZones == {"fixed", "dst"}
DstTransition == StartTime + 2 * HOUR
Offset(zone, t) == IF zone = "dst" /\ t >= DstTransition THEN HOUR ELSE 0

\* hoursAgo = new Date(); hoursAgo.setHours(hoursAgo.getHours() - hours) :
\* the subtraction is done on the local wall clock
HoursAgo(zone, t, hours) ==
    LET wall == t + Offset(zone, t) - hours * HOUR
    IN  IF zone = "dst" /\ wall - HOUR >= DstTransition THEN wall - HOUR
                                                        ELSE wall

getReadingsFromLastHours(coll, zone, t, hours) ==
    OrderByTimestampDesc({d \in coll : d.timestamp >= HoursAgo(zone, t, hours)})

(***************************************************************************)
(* saveToFirebase after its await.                                         *)
(***************************************************************************)
\* saveSensorReading resolved: the rest of the try block
saveResolved(w) ==
    /\ writes[w].state = "pending"
    /\ writes' = [writes EXCEPT ![w].state = "ok"]
    /\ lastSaveTime' = IF revision = 1 THEN writes[w].startedAt
                                       ELSE lastSaveTime
    /\ firebaseStatus' = SetState(firebaseStatus, "Synced")
    /\ readingCount' = SetState(readingCount, readingCount + 1)
    /\ collection' = saveSensorReading(collection, writes[w].data,
                                       writes[w].startedAt, TRUE).collection
    /\ UNCHANGED <<revision, mounted, mqttConfig, configLoad, clients, timers,
                   connectionStatus, sensorData, previousData, sensorDataRef,
                   now,
                   displayed, parseErrors,
                   storeVars, settingsVars, cloudCall, countLoad, viewVars>>

\* saveSensorReading rejected: the catch block
saveRejected(w) ==
    /\ writes[w].state = "pending"
    /\ writes' = [writes EXCEPT ![w].state = "failed"]
    /\ firebaseStatus' = SetState(firebaseStatus, "Sync failed")
    /\ UNCHANGED <<revision, mounted, mqttConfig, configLoad, clients, timers,
                   connectionStatus, sensorData, previousData, sensorDataRef,
                   readingCount, now, lastSaveTime,
                   displayed, parseErrors,
                   storeVars, settingsVars, cloudVars, viewVars>>

\* time passes between two events
Tick(d) ==
    /\ now + d <= StartTime + MaxElapsed
    /\ now' = now + d
    /\ UNCHANGED <<revision, mounted, mqttConfig, configLoad, clients, timers,
                   connectionStatus, sensorData, previousData, sensorDataRef,
                   firebaseStatus, readingCount, writes, lastSaveTime,
                   displayed, parseErrors,
                   storeVars, settingsVars, cloudVars, viewVars>>

(***************************************************************************)
(* config/mqtt.ts: the configuration kept in AsyncStorage.                 *)
(*                                                                         *)
(* A JSON value is a record whose kind tells its shape: "config" for an    *)
(* object with the four fields, "null" for the JSON null, "object" for an  *)
(* object without the fields.  The stored item is a record whose text      *)
(* tells what getItem yields: "absent" (null), "empty" (''), "garbage"     *)
(* (a string JSON.parse rejects) or "json" (the text of value).            *)
(***************************************************************************)
MaxPending == 2

DEFAULT_MQTT_CONFIG ==
    [kind |-> "config", broker |-> "broker.hivemq.com", port |-> 8000,
     topic |-> "semester_project/water_quality", useSSL |-> FALSE]

NoValue == [kind |-> "none", broker |-> "", port |-> 0, topic |-> "",
            useSSL |-> FALSE]
JsonNull == [NoValue EXCEPT !.kind = "null"]
EmptyObject == [NoValue EXCEPT !.kind = "object"]

\* what the user can type into the form
Brokers == {"broker.hivemq.com", ""}
Topics == {"semester_project/water_quality", ""}
PortTexts == {"", "0", "70000"}

\* parseInt(text) || 8000 : NaN and 0 are falsy
PortOf(text) ==
    CASE text = "70000" -> 70000
      [] text = "0" -> 8000
      [] OTHER -> 8000

Configs == [kind : {"config"}, broker : Brokers,
            port : {PortOf(t) : t \in PortTexts}, topic : Topics,
            useSSL : BOOLEAN]

\* a serialisation that loses the port and the flag
StringifyLossy(v) ==
    [text |-> "json", value |-> [v EXCEPT !.port = 8000, !.useSSL = FALSE]]

\* JSON.stringify of a value made of strings, finite numbers and booleans
Stringify(v) == [text |-> "json", value |-> v]

Absent == [text |-> "absent", value |-> NoValue]
EmptyText == [text |-> "empty", value |-> NoValue]
Garbage == [text |-> "garbage", value |-> NoValue]

StorageContents ==
    {Absent, EmptyText, Garbage}
        \cup {Stringify(v) : v \in Configs \cup {JsonNull, EmptyObject}}

\* if (stored) : null and '' are falsy
Truthy(content) == content.text \notin {"absent", "empty"}

\* JSON.parse(stored) returns content.value, or throws
CanParse(content) == content.text = "json"

Settled(status, value) == [status |-> status, value |-> value]

loadMQTTConfigNoCatch(content, readOk) ==
    IF ~readOk \/ (Truthy(content) /\ ~CanParse(content))
    THEN Settled("rejected", NoValue)
    ELSE IF Truthy(content) THEN Settled("resolved", content.value)
         ELSE Settled("resolved", DEFAULT_MQTT_CONFIG)

\* the promise loadMQTTConfig() returns; readOk: getItem resolves
loadMQTTConfig(content, readOk) ==
    IF ~readOk THEN Settled("resolved", DEFAULT_MQTT_CONFIG)
    ELSE IF ~Truthy(content) THEN Settled("resolved", DEFAULT_MQTT_CONFIG)
    ELSE IF ~CanParse(content) THEN Settled("resolved", DEFAULT_MQTT_CONFIG)
    ELSE Settled("resolved", content.value)

saveMQTTConfigSwallow(content, c, writeOk) ==
    [storage |-> IF writeOk THEN Stringify(c) ELSE content,
     result |-> Settled("resolved", NoValue)]

\* the promise saveMQTTConfig(c) returns and the item it leaves;
\* writeOk: setItem resolves
saveMQTTConfig(content, c, writeOk) ==
    IF writeOk
    THEN [storage |-> Stringify(c), result |-> Settled("resolved", NoValue)]
    ELSE [storage |-> content, result |-> Settled("rejected", NoValue)]

resetMQTTConfig(content, writeOk) ==
    IF writeOk
    THEN [storage |-> Stringify(DEFAULT_MQTT_CONFIG),
          result |-> Settled("resolved", DEFAULT_MQTT_CONFIG)]
    ELSE [storage |-> content, result |-> Settled("rejected", NoValue)]

Call(op, io, result) ==
    [op |-> op, io |-> io, status |-> result.status, value |-> result.value]

NoCall == Call("none", TRUE, Settled("none", NoValue))

\* a caller awaits loadMQTTConfig()
callLoad(readOk) ==
    /\ storeCall' = Call("load", readOk, loadMQTTConfig(storage, readOk))
    /\ UNCHANGED <<storage, homeVars, settingsVars, cloudVars, viewVars>>

\* a caller awaits saveMQTTConfig(c)
callSave(c, writeOk) ==
    LET r == saveMQTTConfig(storage, c, writeOk) IN
    /\ storage' = r.storage
    /\ storeCall' = Call("save", writeOk, r.result)
    /\ UNCHANGED <<homeVars, settingsVars, cloudVars, viewVars>>

\* a caller awaits resetMQTTConfig()
callReset(writeOk) ==
    LET r == resetMQTTConfig(storage, writeOk) IN
    /\ storage' = r.storage
    /\ storeCall' = Call("reset", writeOk, r.result)
    /\ UNCHANGED <<homeVars, settingsVars, cloudVars, viewVars>>

(***************************************************************************)
(* app/(tabs)/settings.tsx: SettingsScreen.                                *)
(***************************************************************************)
Awaited(op, arg) == [op |-> op, arg |-> arg]

Remove(seq, k) == [j \in 1..(Len(seq) - 1) |-> IF j < k THEN seq[j]
                                                ELSE seq[j + 1]]

\* the effect's loadConfig(), when loadMQTTConfig() settles
settingsLoadConfig(k, readOk) ==
    /\ k \in DOMAIN pending
    /\ pending[k].op = "load"
    /\ LET r == loadMQTTConfig(storage, readOk) IN
         /\ storeCall' = Call("load", readOk, r)
         /\ config' = IF r.status = "resolved" THEN r.value ELSE config
    /\ loading' = FALSE
    /\ pending' = Remove(pending, k)
    /\ UNCHANGED <<storage, saving, hasChanges, alert, homeVars, cloudVars, viewVars>>

updateConfig(field, value) ==
    /\ ~loading
    /\ config' = [config EXCEPT ![field] = value]
    /\ hasChanges' = TRUE
    /\ UNCHANGED <<loading, saving, alert, pending, storeVars, homeVars, cloudVars, viewVars>>

\* handleSave up to its await; the button is disabled unless
\* hasChanges && !saving
handleSave ==
    /\ ~loading
    /\ hasChanges
    /\ ~saving
    /\ Len(pending) < MaxPending
    /\ saving' = TRUE
    /\ pending' = Append(pending, Awaited("save", config))
    /\ UNCHANGED <<config, loading, hasChanges, alert, storeVars, homeVars, cloudVars, viewVars>>

\* handleSave after its await
handleSaveSettled(k, writeOk) ==
    /\ k \in DOMAIN pending
    /\ pending[k].op = "save"
    /\ LET r == saveMQTTConfig(storage, pending[k].arg, writeOk) IN
         /\ storage' = r.storage
         /\ storeCall' = Call("save", writeOk, r.result)
         /\ IF r.result.status = "resolved"
            THEN /\ hasChanges' = FALSE
                 /\ alert' = "Settings Saved"
            ELSE /\ alert' = "Failed to save settings"
                 /\ UNCHANGED hasChanges
    /\ saving' = FALSE
    /\ pending' = Remove(pending, k)
    /\ UNCHANGED <<config, loading, homeVars, cloudVars, viewVars>>

\* handleReset, the user confirming with 'Reset', up to the await
handleReset ==
    /\ ~loading
    /\ Len(pending) < MaxPending
    /\ pending' = Append(pending, Awaited("reset", NoValue))
    /\ UNCHANGED <<config, loading, saving, hasChanges, alert, storeVars,
                   homeVars, cloudVars, viewVars>>

\* the 'Reset' onPress after its await
handleResetSettled(k, writeOk) ==
    /\ k \in DOMAIN pending
    /\ pending[k].op = "reset"
    /\ LET r == resetMQTTConfig(storage, writeOk) IN
         /\ storage' = r.storage
         /\ storeCall' = Call("reset", writeOk, r.result)
         /\ IF r.result.status = "resolved"
            THEN /\ config' = r.result.value
                 /\ hasChanges' = FALSE
                 /\ alert' = "Reset Complete"
            ELSE /\ alert' = "Failed to reset settings"
                 /\ UNCHANGED <<config, hasChanges>>
    /\ pending' = Remove(pending, k)
    /\ UNCHANGED <<loading, saving, homeVars, cloudVars, viewVars>>

\* the settings tab not opened, nothing read or written
StoreIdle ==
    /\ storage = Absent
    /\ storeCall = NoCall

SettingsIdle ==
    /\ config = DEFAULT_MQTT_CONFIG
    /\ loading = TRUE
    /\ saving = FALSE
    /\ hasChanges = FALSE
    /\ alert = "none"
    /\ pending = <<>>

\* a settled call of a services/firestore function
Query(op, io, hours, zone, count, readings) ==
    [op |-> op, io |-> io, hours |-> hours, zone |-> zone, count |-> count,
     readings |-> readings]

NoQuery == Query("none", TRUE, 0, "fixed", 0, <<>>)

CountLoaded == [state |-> "done", length |-> 0]

\* no reading stored, nothing queried, the count loaded
CloudIdle ==
    /\ collection = {}
    /\ cloudCall = NoQuery
    /\ countLoad = CountLoaded

\* the dashboard and the analytics tab as first rendered
ViewIdle ==
    /\ phCard = [value |-> 70, isAlert |-> FALSE]
    /\ filteredReadings = <<>>
    /\ chartData = <<0>>

(***************************************************************************)
(* Revision 2: the state after the first render and its effects.           *)
(***************************************************************************)
Init ==
    /\ revision = 2
    /\ mounted = TRUE
    /\ mqttConfig = DefaultConfig
    /\ configLoad = "pending"
    /\ clients = <<NewClient(DefaultConfig)>>
    /\ timers = {}
    /\ connectionStatus = "Disconnected"
    /\ sensorData = InitialReading
    /\ previousData = NoReading
    /\ sensorDataRef = InitialReading
    /\ displayed = InitialReading
    /\ parseErrors = 0
    /\ firebaseStatus = "Not synced"
    /\ readingCount = 0
    /\ writes = <<>>
    /\ now = StartTime
    /\ lastSaveTime = 0
    /\ StoreIdle
    /\ SettingsIdle
    /\ CloudIdle
    /\ ViewIdle

Next ==
    \/ MqttEffect
    \/ Unmount
    \/ \E cfg \in {DefaultConfig, StoredConfig} : loadConfig(cfg)
    \/ \E i \in DOMAIN clients : onConnect(i)
    \/ \E i \in DOMAIN clients : onFailure(i)
    \/ \E i \in DOMAIN clients, e \in ErrorCodes : onConnectionLost(i, e)
    \/ \E i \in DOMAIN clients, p \in Payloads : onMessageArrived(i, p)
    \/ Render
    \/ SyncSensorDataRef
    \/ \E w \in DOMAIN writes : saveResolved(w)
    \/ \E w \in DOMAIN writes : saveRejected(w)

Spec == Init /\ [][Next]_vars

(***************************************************************************)
(* Revision 1: a fixed broker (the effect never re-runs) and the           *)
(* rate-limited saveToFirebase, with the clock.                            *)
(***************************************************************************)
InitThrottle ==
    /\ revision = 1
    /\ mounted = TRUE
    /\ mqttConfig = DefaultConfig
    /\ configLoad = "none"
    /\ clients = <<NewClient(DefaultConfig)>>
    /\ timers = {}
    /\ connectionStatus = "Disconnected"
    /\ sensorData = InitialReading
    /\ previousData = NoReading
    /\ sensorDataRef = InitialReading
    /\ displayed = InitialReading
    /\ parseErrors = 0
    /\ firebaseStatus = "Not synced"
    /\ readingCount = 0
    /\ writes = <<>>
    /\ now = StartTime
    /\ lastSaveTime = 0
    /\ StoreIdle
    /\ SettingsIdle
    /\ CloudIdle
    /\ ViewIdle

NextThrottle ==
    \/ Unmount
    \/ \E i \in DOMAIN clients : onConnect(i)
    \/ \E i \in DOMAIN clients : onFailure(i)
    \/ \E i \in DOMAIN clients, e \in ErrorCodes : onConnectionLost(i, e)
    \/ \E i \in DOMAIN clients, p \in Payloads : onMessageArrived(i, p)
    \/ Render
    \/ SyncSensorDataRef
    \/ \E w \in DOMAIN writes : saveResolved(w)
    \/ \E w \in DOMAIN writes : saveRejected(w)
    \/ \E d \in TickSteps : Tick(d)

SpecThrottle == InitThrottle /\ [][NextThrottle]_vars

(***************************************************************************)
(* The configuration store by itself: any stored item, any sequence of     *)
(* calls, each storage operation resolving or rejecting.                   *)
(***************************************************************************)
HomeNotShown ==
    /\ revision = 2
    /\ mounted = FALSE
    /\ mqttConfig = DefaultConfig
    /\ configLoad = "none"
    /\ clients = <<>>
    /\ timers = {}
    /\ connectionStatus = "Disconnected"
    /\ sensorData = InitialReading
    /\ previousData = NoReading
    /\ sensorDataRef = InitialReading
    /\ displayed = InitialReading
    /\ parseErrors = 0
    /\ firebaseStatus = "Not synced"
    /\ readingCount = 0
    /\ writes = <<>>
    /\ now = StartTime
    /\ lastSaveTime = 0

InitStore ==
    /\ HomeNotShown
    /\ storage \in StorageContents
    /\ storeCall = NoCall
    /\ SettingsIdle
    /\ CloudIdle
    /\ ViewIdle

NextStore ==
    \/ \E readOk \in BOOLEAN : callLoad(readOk)
    \/ \E c \in Configs, writeOk \in BOOLEAN : callSave(c, writeOk)
    \/ \E writeOk \in BOOLEAN : callReset(writeOk)

SpecStore == InitStore /\ [][NextStore]_vars

(***************************************************************************)
(* The settings screen: mounted, its load effect started, over an item     *)
(* that is absent, unreadable as JSON, or was saved by the screen.         *)
(***************************************************************************)
SavedBefore ==
    [DEFAULT_MQTT_CONFIG EXCEPT !.useSSL = TRUE]

InitSettings ==
    /\ HomeNotShown
    /\ storage \in {Absent, Garbage, Stringify(DEFAULT_MQTT_CONFIG),
                    Stringify(SavedBefore)}
    /\ storeCall = NoCall
    /\ config = DEFAULT_MQTT_CONFIG
    /\ loading = TRUE
    /\ saving = FALSE
    /\ hasChanges = FALSE
    /\ alert = "none"
    /\ pending = <<Awaited("load", NoValue)>>
    /\ CloudIdle
    /\ ViewIdle

NextSettings ==
    \/ \E k \in DOMAIN pending, readOk \in BOOLEAN : settingsLoadConfig(k, readOk)
    \/ \E b \in Brokers : updateConfig("broker", b)
    \/ \E t \in PortTexts : updateConfig("port", PortOf(t))
    \/ \E t \in Topics : updateConfig("topic", t)
    \/ \E v \in BOOLEAN : updateConfig("useSSL", v)
    \/ handleSave
    \/ \E k \in DOMAIN pending, writeOk \in BOOLEAN : handleSaveSettled(k, writeOk)
    \/ handleReset
    \/ \E k \in DOMAIN pending, writeOk \in BOOLEAN : handleResetSettled(k, writeOk)

SpecSettings == InitSettings /\ [][NextSettings]_vars

(***************************************************************************)
(* The Firestore service by itself: saves and queries at any time.         *)
(***************************************************************************)
QueryHours == {1, 3}

\* a caller awaits saveSensorReading(data)
callSaveReading(data, ok) ==
    /\ Cardinality(collection) < MaxDocs
    /\ collection' = saveSensorReading(collection, data, now, ok).collection
    /\ cloudCall' = Query("save", ok, 0, "fixed", 0, <<>>)
    /\ UNCHANGED <<countLoad, homeVars, storeVars, settingsVars, viewVars>>

\* a caller awaits getTotalReadingsCount()
callTotalCount(ok) ==
    /\ cloudCall' = Query("count", ok, 0, "fixed",
                          IF ok THEN getTotalReadingsCount(collection) ELSE 0,
                          <<>>)
    /\ UNCHANGED <<collection, countLoad, homeVars, storeVars, settingsVars,
                   viewVars>>

\* a caller awaits getReadingsFromLastHours(hours) on a device in zone
callLastHours(hours, zone, ok) ==
    /\ cloudCall' = Query("lastHours", ok, hours, zone, 0,
                          IF ok THEN getReadingsFromLastHours(collection, zone,
                                                              now, hours)
                                ELSE <<>>)
    /\ UNCHANGED <<collection, countLoad, homeVars, storeVars, settingsVars,
                   viewVars>>

\* an hour passes
TickHour ==
    /\ now + HOUR <= StartTime + MaxTicks * HOUR
    /\ now' = now + HOUR
    /\ UNCHANGED <<revision, mounted, mqttConfig, configLoad, clients, timers,
                   connectionStatus, sensorData, previousData, sensorDataRef,
                   firebaseStatus, readingCount, writes, lastSaveTime,
                   displayed, parseErrors,
                   storeVars, settingsVars, cloudVars, viewVars>>

InitQueries ==
    /\ HomeNotShown
    /\ StoreIdle
    /\ SettingsIdle
    /\ CloudIdle
    /\ ViewIdle

NextQueries ==
    \/ \E d \in Readings, ok \in BOOLEAN : callSaveReading(d, ok)
    \/ \E ok \in BOOLEAN : callTotalCount(ok)
    \/ \E h \in QueryHours, z \in TimeZones, ok \in BOOLEAN : callLastHours(h, z, ok)
    \/ TickHour

SpecQueries == InitQueries /\ [][NextQueries]_vars

(***************************************************************************)
(* The dashboard's 'Readings Saved': HomeScreen (revision 2) over a        *)
(* collection that earlier runs have filled.                               *)
(***************************************************************************)
COUNT_QUERY_LIMIT == 100

\* n documents of earlier runs
Older(n) == {[id |-> k, data |-> "r1", timestamp |-> k] : k \in 1..n}

StoredBefore == {0, 1, COUNT_QUERY_LIMIT, COUNT_QUERY_LIMIT + 1}

\* loadReadingCount: the server runs getLatestReadings(100)
loadReadingCountQuery ==
    /\ countLoad.state = "pending"
    /\ countLoad' = [state |-> "fetched",
                     length |-> Len(getLatestReadings(collection,
                                                      COUNT_QUERY_LIMIT))]
    /\ UNCHANGED <<collection, cloudCall, homeVars, storeVars, settingsVars,
                   viewVars>>

\* loadReadingCount after its await; ok: getLatestReadings resolves
loadReadingCount(ok) ==
    /\ countLoad.state \in {"pending", "fetched"}
    /\ ok => countLoad.state = "fetched"
    /\ countLoad' = [countLoad EXCEPT !.state = IF ok THEN "done" ELSE "failed"]
    /\ readingCount' = IF ok THEN SetState(readingCount, countLoad.length)
                             ELSE readingCount
    /\ firebaseStatus' = IF ok /\ countLoad.length > 0
                           THEN SetState(firebaseStatus, "Connected")
                           ELSE firebaseStatus
    /\ UNCHANGED <<revision, mounted, mqttConfig, configLoad, clients, timers,
                   connectionStatus, sensorData, previousData, sensorDataRef,
                   writes, now, lastSaveTime, displayed, parseErrors,
                   collection, cloudCall, storeVars, settingsVars, viewVars>>

InitReadings ==
    /\ revision = 2
    /\ mounted = TRUE
    /\ mqttConfig = DefaultConfig
    /\ configLoad = "done"
    /\ clients = <<NewClient(DefaultConfig)>>
    /\ timers = {}
    /\ connectionStatus = "Disconnected"
    /\ sensorData = InitialReading
    /\ previousData = NoReading
    /\ sensorDataRef = InitialReading
    /\ displayed = InitialReading
    /\ parseErrors = 0
    /\ firebaseStatus = "Not synced"
    /\ readingCount = 0
    /\ writes = <<>>
    /\ now = StartTime
    /\ lastSaveTime = 0
    /\ StoreIdle
    /\ SettingsIdle
    /\ \E n \in StoredBefore : collection = Older(n)
    /\ cloudCall = NoQuery
    /\ countLoad = [state |-> "pending", length |-> 0]
    /\ ViewIdle

NextReadings ==
    \/ loadReadingCountQuery
    \/ \E ok \in BOOLEAN : loadReadingCount(ok)
    \/ \E i \in DOMAIN clients : onConnect(i)
    \/ \E i \in DOMAIN clients, p \in Payloads : onMessageArrived(i, p)
    \/ Render
    \/ SyncSensorDataRef
    \/ \E w \in DOMAIN writes : saveResolved(w)
    \/ \E w \in DOMAIN writes : saveRejected(w)

SpecReadings == InitReadings /\ [][NextReadings]_vars

(***************************************************************************)
(* The pH card of the dashboard.  pH values are in tenths (65 is pH 6.5).  *)
(***************************************************************************)
MaxPh == 140

\* isAlert={sensorData.ph < 6 || sensorData.ph > 8.5}
PhIsAlert(ph) == ph < 60 \/ ph > 85

\* a reading with this pH is rendered
renderPhCard(ph) ==
    /\ phCard' = [value |-> ph, isAlert |-> PhIsAlert(ph)]
    /\ UNCHANGED <<filteredReadings, chartData, homeVars, storeVars,
                   settingsVars, cloudVars>>

InitCards ==
    /\ HomeNotShown
    /\ StoreIdle
    /\ SettingsIdle
    /\ CloudIdle
    /\ ViewIdle

NextCards == \E ph \in 0..MaxPh : renderPhCard(ph)

SpecCards == InitCards /\ [][NextCards]_vars

(***************************************************************************)
(* The chart of the analytics tab.  A reading is named by its rank in time *)
(* (1 is the oldest); filteredReadings lists them newest first, as         *)
(* getAllReadings returns them.                                            *)
(***************************************************************************)
MaxReadings == 120

maxPoints == 30

Reverse(seq) == [k \in 1..Len(seq) |-> seq[Len(seq) + 1 - k]]

\* datasets[0].data of getChartData(): one point per sampled reading, or [0]
getChartData(readings) ==
    IF Len(readings) = 0 THEN <<0>>
    ELSE LET sorted == Reverse(readings)
             floor == Len(sorted) \div maxPoints
             step == IF floor > 1 THEN floor ELSE 1
             kept == {i \in 0..(Len(sorted) - 1) : i % step = 0}
         IN  [k \in 1..Cardinality(kept) |-> sorted[(k - 1) * step + 1]]

\* the readings load or the time filter changes: n readings pass the filter
showReadings(n) ==
    /\ filteredReadings' = [k \in 1..n |-> n + 1 - k]
    /\ chartData' = getChartData(filteredReadings')
    /\ UNCHANGED <<phCard, homeVars, storeVars, settingsVars, cloudVars>>

InitChart ==
    /\ HomeNotShown
    /\ StoreIdle
    /\ SettingsIdle
    /\ CloudIdle
    /\ ViewIdle

NextChart == \E n \in 0..MaxReadings : showReadings(n)

SpecChart == InitChart /\ [][NextChart]_vars

(***************************************************************************)
(* The documented connection policy, in the terms of the model.            *)
(***************************************************************************)
Min(a, b) == IF a < b THEN a ELSE b

\* delay = min(baseDelay * 2^(attempt-1), capDelay)
Backoff(k) == Min(BASE_RECONNECT_DELAY * 2^(k - 1), MAX_RECONNECT_DELAY)

\* a reconnect of client i is scheduled / scheduled with delay d
ReconnectPending(i) == \E t \in timers : t.client = i
ReconnectPendingIn(i, d) == \E t \in timers : t.client = i /\ t.delay = d

\* client i stays unconnected after a failed attempt or an unexpected loss
Down(i) == clients[i].phase \in {"failed", "lost"}

\* some handler of client i runs in this step
Callback(i) ==
    \/ onConnect(i)
    \/ onFailure(i)
    \/ \E e \in ErrorCodes : onConnectionLost(i, e)
    \/ \E p \in Payloads : onMessageArrived(i, p)

\* a newer client has replaced client i in clientRef
Superseded(i) == i < Current

(***************************************************************************)
(* Connection manager.                                                     *)
(***************************************************************************)
\* C1: after the k-th consecutive failed attempt (k = 1..10) of a client that
\* was not stopped, a reconnect is pending whose delay is
\* min(2000 * 2^(k-1), 60000) ms.
C1_BackoffDelays ==
    \A i \in DOMAIN clients : \A k \in 1..MAX_RECONNECT_ATTEMPTS :
        (~clients[i].stopped /\ clients[i].phase = "failed"
            /\ clients[i].failures = k)
        => ReconnectPendingIn(i, Backoff(k))

\* C2: the status is 'Failed to Connect' only once a client has used all 10
\* attempts.
C2_FailedAfterMaxAttempts ==
    connectionStatus = "Failed to Connect"
    => \E i \in DOMAIN clients :
           /\ clients[i].phase = "failed"
           /\ clients[i].attempts >= MAX_RECONNECT_ATTEMPTS

\* C3: a client that was not stopped and has retry budget left never rests
\* in the lost or failed state: a reconnect is pending for it.
C3_ReconnectScheduled ==
    \A i \in DOMAIN clients :
        (~clients[i].stopped /\ Down(i)
            /\ clients[i].failures < MAX_RECONNECT_ATTEMPTS)
        => ReconnectPending(i)

\* C5: a handler of a superseded client changes neither the connection
\* status nor the displayed reading, and starts no write.
C5_StaleCallbacksIgnored ==
    [][\A i \in DOMAIN clients :
         (Superseded(i) /\ Callback(i))
         => UNCHANGED <<connectionStatus, sensorData, writes>>]_vars

\* C6: at most one client is connecting and at most one is connected.
C6_SingleConnection ==
    /\ Cardinality({i \in DOMAIN clients :
                      clients[i].phase = "connecting"}) <= 1
    /\ Cardinality({i \in DOMAIN clients :
                      clients[i].phase = "connected"}) <= 1

\* C7: once the cleanup has run for a client, its connection never changes
\* state again except to finish the disconnect the cleanup asked for, the
\* connection status is not changed by it, and it delivers no message.
C7_SilentAfterStop ==
    [][\A i \in DOMAIN clients :
         (clients[i].stopped /\ Callback(i))
         => /\ clients'[i].phase \in {clients[i].phase, "closed"}
            /\ UNCHANGED <<connectionStatus, sensorData, previousData,
                           writes>>]_vars

\* C8: after a connection that was established is lost, the reconnect that
\* is pending has the base delay of 2000 ms.
C8_BaseDelayAfterConnected ==
    \A i \in DOMAIN clients :
        (~clients[i].stopped /\ clients[i].phase = "lost")
        => ReconnectPendingIn(i, BASE_RECONNECT_DELAY)

(***************************************************************************)
(* Sync throttle (revision 1).                                             *)
(***************************************************************************)
\* start times of the forwards known to have succeeded
SuccessfulStarts ==
    {writes[w].startedAt : w \in {v \in DOMAIN writes : writes[v].state = "ok"}}

LastSuccessfulStart ==
    CHOOSE t \in SuccessfulStarts : \A u \in SuccessfulStarts : u <= t

\* no forward has happened yet, or the interval has elapsed since the last
\* successful forward
ForwardDue(t) ==
    \/ writes = <<>>
    \/ /\ SuccessfulStarts # {}
       /\ t - LastSuccessfulStart >= FIREBASE_SAVE_INTERVAL

\* C9: on the mounted screen, a decoded reading arriving at time t starts a
\* create call if and only if no forward has happened yet or at least
\* 30000 ms have elapsed since the last successful forward.
C9_ThrottleDecision ==
    [][\A i \in DOMAIN clients : \A r \in Readings :
         (mounted /\ onMessageArrived(i, r))
         => ((writes' # writes) <=> ForwardDue(now))]_vars

\* C10: on the mounted screen, no two create calls are started less than
\* 30000 ms apart.
C10_OneWritePerInterval ==
    mounted =>
    \A v \in DOMAIN writes : \A w \in DOMAIN writes :
        v < w => writes[w].startedAt - writes[v].startedAt
                     >= FIREBASE_SAVE_INTERVAL

(***************************************************************************)
(* Throttle failure semantics, payload handling and status (C11..C20).     *)
(***************************************************************************)
\* C11: on the mounted screen, a reading that arrives less than 30000 ms
\* after the start of a create call that failed is not forwarded.
C11_FailedWriteCounts ==
    [][\A i \in DOMAIN clients : \A r \in Readings :
         (/\ mounted
          /\ onMessageArrived(i, r)
          /\ \E w \in DOMAIN writes :
                 /\ writes[w].state = "failed"
                 /\ now - writes[w].startedAt < FIREBASE_SAVE_INTERVAL)
         => writes' = writes]_vars

\* C14: a payload that JSON.parse rejects leaves the connection status, the
\* displayed and previous reading and the last save time unchanged and
\* starts no create call.
C14_MalformedDropped ==
    [][\A i \in DOMAIN clients :
         onMessageArrived(i, Malformed)
         => UNCHANGED <<connectionStatus, clients, sensorData, previousData,
                        sensorDataRef, lastSaveTime, writes,
                        firebaseStatus>>]_vars

\* a malformed payload was handled after a reading was shown and saved
C14_Witness ==
    /\ parseErrors > 0
    /\ sensorData \in Readings
    /\ connectionStatus = "Connected"
    /\ writes # <<>>

\* C15: on the mounted screen the status becomes 'Lost Connection' exactly
\* when onConnectionLost runs with a non-zero errorCode; with errorCode 0
\* the status stays as it is.
C15_LostOnlyOnFault ==
    [][/\ \A i \in DOMAIN clients :
            onConnectionLost(i, 0) => connectionStatus' = connectionStatus
       /\ \A i \in DOMAIN clients : \A e \in ErrorCodes \ {0} :
            (mounted /\ onConnectionLost(i, e))
            => connectionStatus' = "Lost Connection"
       /\ (connectionStatus # "Lost Connection"
              /\ connectionStatus' = "Lost Connection")
          => \E i \in DOMAIN clients : \E e \in ErrorCodes \ {0} :
                 onConnectionLost(i, e)]_vars

\* one client was disconnected gracefully (errorCode 0) with the status left
\* 'Connected', another one is connected
C15_Witness ==
    /\ connectionStatus = "Connected"
    /\ \E i \in DOMAIN clients : clients[i].phase = "closed"
    /\ \E j \in DOMAIN clients : clients[j].phase = "connected"

\* C16: in revision 2 every decoded reading starts exactly one create call,
\* at once, whatever the earlier calls did.
C16_SavePerMessage ==
    [][\A i \in DOMAIN clients : \A r \in Readings :
         onMessageArrived(i, r)
         => writes' = Append(writes, [data |-> r, startedAt |-> now,
                                      state |-> "pending"])]_vars

\* a create call was started while the one before it was still pending
C16_Witness ==
    /\ Len(writes) = 2
    /\ writes[1].state = "pending"

\* C17: on the mounted screen every decoded reading becomes the current
\* reading and the reading shown before it becomes the previous reading.
C17_DisplayUpdated ==
    [][\A i \in DOMAIN clients : \A r \in Readings :
         (mounted /\ onMessageArrived(i, r))
         => /\ sensorData' = r
            /\ previousData' = displayed]_vars

\* C18: no two clients are created with the same client identifier.
C18_UniqueClientIds ==
    \A i \in DOMAIN clients : \A j \in DOMAIN clients :
        i # j => clients[i].clientId # clients[j].clientId

\* C19: whenever the cleanup of the MQTT effect stops the client while the
\* screen stays shown, the connection status the screen shows afterwards is
\* 'Disconnected', whatever it was before.
C19_StopDisconnects ==
    [][(mounted' /\ (Unmount \/ MqttEffect))
         => connectionStatus' = "Disconnected"]_vars

\* connect failures and unexpected losses of client i
RetryEvents(i) ==
    clients[i].failures + (IF clients[i].phase = "lost" THEN 1 ELSE 0)

\* C20: the status is 'Failed to Connect' only once the connect failures and
\* losses of a client add up to 10.
C20_SharedRetryBudget ==
    connectionStatus = "Failed to Connect"
    => \E i \in DOMAIN clients : RetryEvents(i) >= MAX_RECONNECT_ATTEMPTS

C13_WriteFailureReported ==
    [][\A k \in DOMAIN pending :
         /\ handleSaveSettled(k, FALSE)
              => /\ storeCall'.status = "rejected"
                 /\ alert' = "Failed to save settings"
                 /\ hasChanges' = hasChanges
         /\ handleResetSettled(k, FALSE)
              => /\ storeCall'.status = "rejected"
                 /\ alert' = "Failed to reset settings"
                 /\ hasChanges' = hasChanges]_vars

C13_Witness ==
    /\ storeCall.op = "save"
    /\ storeCall.status = "rejected"
    /\ alert = "Failed to save settings"
    /\ hasChanges
    /\ ~saving

(***************************************************************************)
(* C21: configuration round trip.  In the state a successful               *)
(* saveMQTTConfig(c) leaves, loadMQTTConfig (its read succeeding) resolves *)
(* to a configuration equal to c in broker, port, topic and useSSL, for    *)
(* every c; in the state a successful resetMQTTConfig leaves, it resolves  *)
(* to DEFAULT_MQTT_CONFIG.                                                 *)
(***************************************************************************)
SameConfig(a, b) ==
    /\ a.broker = b.broker
    /\ a.port = b.port
    /\ a.topic = b.topic
    /\ a.useSSL = b.useSSL

Usable(c) ==
    /\ c.kind = "config"
    /\ c.port \in 1..65535
    /\ c.broker # ""
    /\ c.topic # ""

C22_ConfigUsable ==
    /\ \A k \in DOMAIN pending : pending[k].op = "save" => Usable(pending[k].arg)
    /\ storeCall.op = "load" => Usable(storeCall.value)

(***************************************************************************)
(* C26: a failed save blocks nothing.  On the mounted screen, a reading    *)
(* that arrives while the sync status is 'Sync failed' becomes the current *)
(* reading and starts a save, and every save that resolves sets the sync   *)
(* status to 'Synced'.                                                     *)
(***************************************************************************)
C26_FailureDoesNotBlock ==
    [][/\ \A i \in DOMAIN clients : \A r \in Readings :
            (mounted /\ firebaseStatus = "Sync failed" /\ onMessageArrived(i, r))
              => /\ sensorData' = r
                 /\ writes' = Append(writes, [data |-> r, startedAt |-> now,
                                              state |-> "pending"])
       /\ \A w \in DOMAIN writes :
            (mounted /\ saveResolved(w)) => firebaseStatus' = "Synced"]_vars

C26_Witness ==
    /\ mounted
    /\ Len(writes) = 2
    /\ writes[1].state = "failed"
    /\ writes[2].state = "ok"
    /\ firebaseStatus = "Synced"
    /\ displayed = writes[2].data

(***************************************************************************)
(* C28: while the screen is shown, the status 'Connected' implies that the *)
(* client of the latest run of the MQTT effect is connected.               *)
(***************************************************************************)
C28_ConnectedIsCurrent ==
    (mounted /\ connectionStatus = "Connected")
        => clients[Current].phase = "connected"

(***************************************************************************)
(* C29: on the settings screen, "once loading has finished, hasChanges =   *)
(* FALSE implies that the form shows the configuration a load of the       *)
(* stored item yields, and at most one save is in flight" is kept by every *)
(* step after the initial load: field edits, save, reset and their         *)
(* completions, in every interleaving.                                     *)
(***************************************************************************)
SavesInFlight == {k \in DOMAIN pending : pending[k].op = "save"}

CleanFormIsPersisted ==
    /\ (~loading /\ ~hasChanges)
         => config = loadMQTTConfig(storage, TRUE).value
    /\ Cardinality(SavesInFlight) <= 1

C29_CleanFormIsPersisted ==
    [][(~loading /\ CleanFormIsPersisted) => CleanFormIsPersisted']_vars

(***************************************************************************)
(* C23: getTotalReadingsCount is the number of persisted readings: 0 on    *)
(* the empty collection; a saveSensorReading call that succeeds raises it  *)
(* by one, one that fails leaves it, no step removes or changes a          *)
(* document, and a count query returns the number of documents.            *)
(***************************************************************************)
C23_CountIsSuccessfulSaves ==
    [][/\ collection = {} => getTotalReadingsCount(collection) = 0
       /\ \A d \in Readings :
            /\ callSaveReading(d, TRUE)
                 => getTotalReadingsCount(collection')
                      = getTotalReadingsCount(collection) + 1
            /\ callSaveReading(d, FALSE)
                 => getTotalReadingsCount(collection')
                      = getTotalReadingsCount(collection)
       /\ collection \subseteq collection'
       /\ callTotalCount(TRUE) => cloudCall'.count = Cardinality(collection)]_vars

C23_Witness ==
    /\ cloudCall.op = "count"
    /\ cloudCall.io
    /\ cloudCall.count = 2
    /\ Cardinality(collection) = 2
    /\ \A d \in collection : d.data = "r1"

(***************************************************************************)
(* C24: on the dashboard, once the initial count load has completed and no *)
(* save is in flight, the 'Readings Saved' value equals the total number   *)
(* of readings in the store.                                               *)
(***************************************************************************)
C24_CountIsTotal ==
    (/\ mounted
     /\ countLoad.state = "done"
     /\ \A w \in DOMAIN writes : writes[w].state # "pending")
        => readingCount = getTotalReadingsCount(collection)

(***************************************************************************)
(* C25: getReadingsFromLastHours(h) returns exactly the persisted readings *)
(* whose timestamp is at or after now - h hours, newest first.             *)
(***************************************************************************)
Range(seq) == {seq[k] : k \in DOMAIN seq}

C25_LastHoursExact ==
    [][\A h \in QueryHours, z \in TimeZones :
         callLastHours(h, z, TRUE)
           => /\ Range(cloudCall'.readings)
                   = {d \in collection : d.timestamp >= now - h * HOUR}
              /\ Len(cloudCall'.readings) = Cardinality(Range(cloudCall'.readings))
              /\ \A j, k \in DOMAIN cloudCall'.readings :
                   j < k => cloudCall'.readings[j].timestamp
                              >= cloudCall'.readings[k].timestamp]_vars

(***************************************************************************)
(* C27: the pH card shows its alert exactly for the pH values outside the  *)
(* safe range 6.5 to 8.5.                                                  *)
(***************************************************************************)
C27_PhAlertOutsideSafeRange ==
    phCard.isAlert <=> (phCard.value < 65 \/ phCard.value > 85)

(***************************************************************************)
(* C30: for one or more filtered readings the charted series has at most   *)
(* maxPoints points, starts with the oldest reading and is oldest first.   *)
(***************************************************************************)
C30_ChartLimited ==
    Len(filteredReadings) >= 1
        => /\ Len(chartData) <= maxPoints
           /\ chartData[1] = filteredReadings[Len(filteredReadings)]
           /\ \A j, k \in DOMAIN chartData : j < k => chartData[j] < chartData[k]

=============================================================================
